---- MODULE Spec2Model ----
(***************************************************************************)
(* A model of scatter.py's real-time session layer.                        *)
(*                                                                         *)
(*   src/scatter/client.py   Typing (the typing keep-alive scope) and      *)
(*                           Client (registration, _dispatch, close,       *)
(*                           subscriptions, send_typing)                   *)
(*                                                                         *)
(* scatter/gateway.py (Gateway) and scatter/events.py (EVENT_MAP,          *)
(* parse_event) are imported by client.py but are not among the source     *)
(* files; the definitions that stand for them follow spec.md sections 4.1, *)
(* 4.2, 4.3 and 6 and say so in their comments.                            *)
(*                                                                         *)
(* asyncio is modelled as cooperative scheduling: an action is the code a  *)
(* coroutine runs between two suspension points (await), so actions of     *)
(* different coroutines interleave only at awaits.                         *)
(***************************************************************************)
EXTENDS Integers, Sequences, FiniteSets, TLC

\* ------------------------------------------------------------------ bounds

\* Typing objects handed out by Client.typing() that the callers hold.
NumTyping == 2
\* Typing scopes entered in one run (each successful entry starts one task).
MaxScopes == 2
\* The clock stops here; one unit is _TYPING_INTERVAL seconds.
MaxTime == 2
\* Envelopes the transport delivers in one run.
MaxEnvelopes == 2
\* listen() registrations in one run.
MaxListeners == 2
\* Heartbeats the session sends in one run.
MaxHeartbeats == 2
\* REST calls made in one run.
MaxCalls == 2

\* ------------------------------------------------------------- value sets

None == "None"

ChannelIds == {"c1", "c2"}
SpaceIds == {"s1"}
TypingObjs == 1..NumTyping
ScopeIds == 1..MaxScopes

\* Connection State of spec.md section 3.
ConnStates ==
    {"Disconnected", "Connecting", "Authenticating", "Connected",
     "Reconnecting", "Closed"}

VARIABLES
    \* ---- Gateway (scatter/gateway.py, modelled from spec.md 4.1 / 4.2)
    conn,              \* Connection State
    ever_connected,    \* the session has been Connected before
    tracked_channels,  \* Subscription Set: channel ids
    tracked_spaces,    \* Subscription Set: space ids
    replayQueue,       \* subscribe messages the current replay still has to send
    replaySnapshot,    \* history: the Subscription Set read at the last reconnect
    replayLog,         \* history: what the replay has sent since the last reconnect
    earlyDelivery,     \* history: an envelope reached _dispatch during a replay
    heartbeat,         \* the heartbeats sent, the one awaiting its acknowledgment
    \* ---- HTTPClient (scatter/http.py)
    http,              \* _session, and history: calls made, requests issued, last call
    \* ---- the Client call made in the step just taken (history)
    lastCall,
    \* ---- Typing (client.py 30-65)
    typing_task,       \* Typing._task of each Typing object
    scopes,            \* each entered scope: the caller's position in the async with
    tasks,             \* the background task each entry created (scope s owns task s)
    now,               \* the clock, in units of _TYPING_INTERVAL
    \* ---- Client registration and _dispatch (client.py 99-184)
    user_id,           \* Client.user_id
    event_handlers,    \* Client._event_handlers: handler name -> coroutine
    listeners,         \* Client._listeners: key -> list of coroutines
    lastReg,           \* history: how the last event() call ended
    listenLog,         \* history: the listen() calls made, in order
    inbox,             \* envelopes received from the transport, not yet dispatched
    received,          \* envelopes received so far
    dispatched,        \* envelopes handed to _dispatch so far
    pc,                \* where the running _dispatch is suspended
    cur,               \* the envelope of the running _dispatch
    idx,               \* the position of the listener it is awaiting
    round,             \* history: what the running _dispatch has invoked
    last,              \* history: the _dispatch that ended in the step just taken
    prevFailed,        \* history: the primary handler of the last finished _dispatch raised
    inflight           \* history: envelopes with an invocation started, not ended

vars ==
    <<conn, ever_connected, tracked_channels, tracked_spaces,
      replayQueue, replaySnapshot, replayLog, earlyDelivery, heartbeat,
      http, lastCall,
      typing_task, scopes, tasks, now, user_id, event_handlers, listeners,
      lastReg, listenLog, inbox, received, dispatched, pc, cur, idx, round, last,
      prevFailed, inflight>>

gatewayVars ==
    <<conn, ever_connected, tracked_channels, tracked_spaces,
      replayQueue, replaySnapshot, replayLog, earlyDelivery>>
typingVars == <<typing_task, scopes, tasks, now>>
registrationVars == <<event_handlers, listeners, lastReg, listenLog>>
roundVars == <<inbox, received, dispatched, pc, cur, idx, round, prevFailed, inflight>>
dispatchVars == <<user_id, registrationVars, roundVars>>

\* ------------------------------------------------------------------ helpers

RECURSIVE SeqOfSet(_)
\* The orders in which a set can be iterated (Python does not fix one).
SeqOfSet(S) ==
    IF S = {} THEN {<<>>}
    ELSE UNION {{<<x>> \o t : t \in SeqOfSet(S \ {x})} : x \in S}

Range(s) == {s[i] : i \in DOMAIN s}

\* No coroutine: the None of dict.get.
NoCoro == [name |-> <<>>, id |-> 0]

\* No _dispatch has ended in the step just taken.
NoLast ==
    [seq |-> 0, kind |-> None, result |-> "none", hreg |-> NoCoro,
     hcoro |-> NoCoro, hres |-> "none", invoked |-> <<>>, failedAt |-> 0,
     baseAt |-> 0, regs |-> <<>>, regs0 |-> <<>>, afterFailure |-> FALSE]

\* A call of a Client method by the application: the method, its argument,
\* the message it hands to Gateway.send, whether the id was tracked before,
\* whether the tracker raised, and what the call raised.
Call(op, id, msg, wasTracked, trackRaised, raised) ==
    [op |-> op, id |-> id, msg |-> msg, wasTracked |-> wasTracked,
     trackRaised |-> trackRaised, raised |-> raised]

NoMsg == [type |-> None, id |-> None]

NoCall == Call(None, None, NoMsg, FALSE, FALSE, None)

\* The step is no call of a Client method by the application.
NoCallMade == lastCall' = NoCall

\* The step ends no _dispatch.
NoRoundEnded == last' = NoLast

\* --------------------------------------------------------- wire messages
\* spec.md section 6, and the dict literals of client.py 212-241.

SubscribeMsg(channel_id) == [type |-> "subscribe", id |-> channel_id]
UnsubscribeMsg(channel_id) == [type |-> "unsubscribe", id |-> channel_id]
SubscribeSpaceMsg(space_id) == [type |-> "subscribe_space", id |-> space_id]
UnsubscribeSpaceMsg(space_id) == [type |-> "unsubscribe_space", id |-> space_id]
TypingMsg(channel_id) == [type |-> "typing", id |-> channel_id]

\* ------------------------------------------------ Gateway: Subscription Tracker
\* spec.md 4.2: synchronous, idempotent set mutation, no I/O.  Each operation
\* gives the new set and whether it raised.

TrackResult(set, raised) == [set |-> set, raised |-> raised]

track_channel(set, id) == TrackResult(set \cup {id}, FALSE)

untrack_raising(set, id) ==
    IF id \in set THEN TrackResult(set \ {id}, FALSE) ELSE TrackResult(set, TRUE)

untrack_channel(set, id) == TrackResult(set \ {id}, FALSE)

track_space(set, id) == TrackResult(set \cup {id}, FALSE)

untrack_space(set, id) == TrackResult(set \ {id}, FALSE)

\* ------------------------------------------------------ Gateway: send
\* spec.md 4.1: once Closed, "subsequent send operations fail with a session
\* closed condition"; spec.md 7 (a): a transport failure is never surfaced, it
\* drives Connected -> Reconnecting.

SendRaises == conn = "Closed"

\* What a send does to the connection: transmitted, or a transport failure.
SendOutcomes == IF conn = "Connected" THEN {"sent", "lost"} ELSE {"sent"}

\* The connection is lost: the replay in progress, if any, is abandoned.
\* [spec.md 4.1, Connected -> Reconnecting]
LoseConnection ==
    /\ conn' = "Reconnecting"
    /\ replayQueue' = <<>>

\* Gateway.send's effect on the gateway for a send that did not raise.
SendEffect(outcome) ==
    IF outcome = "lost"
    THEN LoseConnection
    ELSE UNCHANGED <<conn, replayQueue>>

\* -------------------------------------------------------------- HTTPClient
\* A response is a status and a body.  The body is what resp.json() makes of
\* it: a JSON object, a JSON value of another type, or text that is no JSON,
\* for which resp.json() raises.
Statuses == {200, 204, 400, 403, 404, 500}
DictBody == [type |-> "dict", value |-> <<"detail">>]
ListBody == [type |-> "list", value |-> <<"item">>]
BadBody == [type |-> "invalid", value |-> <<"text">>]
EmptyDict == [type |-> "dict", value |-> <<>>]
Bodies == {DictBody, ListBody, BadBody}

\* The operations that go through request(), three of the verb wrappers, and
\* upload_file, which issues its request itself.
RequestOps == {"get_space", "send_message", "delete_message"}
RestOps == RequestOps \cup {"upload_file"}

NoOutcome == [raised |-> "none", status |-> 0, body |-> EmptyDict]
NoHTTP ==
    [session |-> "none", calls |-> 0, requests |-> 0,
     last |-> [op |-> "none", status |-> 0, body |-> EmptyDict,
               outcome |-> NoOutcome]]

\* _ensure_session: a session that is absent or closed is replaced.
ensure_session(sess) == IF sess \in {"none", "closed"} THEN "open" ELSE sess

\* HTTPClient.close: an open session is closed.
http_close(sess) == IF sess = "open" THEN "closed" ELSE sess

\* body if isinstance(body, dict) else {"error": str(body)}
ErrorBody(body) ==
    IF body.type = "dict" THEN body
    ELSE [type |-> "dict", value |-> <<"error">> \o body.value]

Returned(body) == [raised |-> "none", status |-> 0, body |-> body]
Raised(class, status, body) ==
    [raised |-> class, status |-> status, body |-> ErrorBody(body)]
JSONError == [raised |-> "JSONDecodeError", status |-> 0, body |-> EmptyDict]

\* The exception request() raises for a status >= 400.
ErrorClass(status) ==
    IF status = 404 THEN "NotFound"
    ELSE IF status = 403 THEN "Forbidden"
    ELSE "HTTPException"

\* HTTPClient.request, from the response on.
request(status, body) ==
    IF status = 204 THEN Returned(EmptyDict)
    ELSE IF body.type = "invalid" THEN JSONError
    ELSE IF status >= 400 THEN Raised(ErrorClass(status), status, body)
    ELSE Returned(body)

\* HTTPClient.upload_file, from the response on.
upload_file(status, body) ==
    IF body.type = "invalid" THEN JSONError
    ELSE IF status >= 400 THEN Raised("HTTPException", status, body)
    ELSE Returned(body)

\* One call of a REST operation, with the response the server gives: the
\* session is ensured, one request is issued, the response is turned into the
\* call's outcome.
RestCall(op, status, body) ==
    /\ http.calls < MaxCalls
    /\ http' = [session |-> ensure_session(http.session),
                calls |-> http.calls + 1,
                requests |-> http.requests + 1,
                last |-> [op |-> op, status |-> status, body |-> body,
                          outcome |-> IF op = "upload_file"
                                      THEN upload_file(status, body)
                                      ELSE request(status, body)]]
    /\ UNCHANGED gatewayVars
    /\ UNCHANGED heartbeat
    /\ UNCHANGED typingVars
    /\ UNCHANGED dispatchVars
    /\ NoCallMade
    /\ NoRoundEnded

\* ------------------------------------------------ Gateway: session lifecycle
\* spec.md 4.1.

\* The replay of a Subscription Set snapshot: the channels, then the spaces.
ReplayPlan_SpacesFirst(channels, spaces) ==
    {s \o c : c \in SeqOfSet({SubscribeMsg(x) : x \in channels}),
              s \in SeqOfSet({SubscribeSpaceMsg(x) : x \in spaces})}

ReplayPlan(channels, spaces) ==
    {c \o s : c \in SeqOfSet({SubscribeMsg(x) : x \in channels}),
              s \in SeqOfSet({SubscribeSpaceMsg(x) : x \in spaces})}

\* Disconnected -> Connecting, on start().  [client.py 188-190]
Start ==
    /\ conn = "Disconnected"
    /\ conn' = "Connecting"
    /\ UNCHANGED <<ever_connected, tracked_channels, tracked_spaces,
                   replayQueue, replaySnapshot, replayLog, earlyDelivery>>
    /\ UNCHANGED typingVars
    /\ NoCallMade
    /\ UNCHANGED dispatchVars
    /\ NoRoundEnded
    /\ UNCHANGED <<heartbeat, http>>

\* Connecting -> Authenticating, on transport connect success.
ConnectOk ==
    /\ conn = "Connecting"
    /\ conn' = "Authenticating"
    /\ UNCHANGED <<ever_connected, tracked_channels, tracked_spaces,
                   replayQueue, replaySnapshot, replayLog, earlyDelivery>>
    /\ UNCHANGED typingVars
    /\ NoCallMade
    /\ UNCHANGED dispatchVars
    /\ NoRoundEnded
    /\ UNCHANGED <<heartbeat, http>>

\* Authenticating -> Connected, on the ready acknowledgment.  After a reconnect
\* the Subscription Set is read and queued for replay.  Heartbeating begins:
\* no heartbeat of an earlier connection is awaited any longer.
ReadyAck ==
    /\ conn = "Authenticating"
    /\ conn' = "Connected"
    /\ ever_connected' = TRUE
    /\ IF ever_connected
       THEN /\ replaySnapshot' =
                  [channels |-> tracked_channels, spaces |-> tracked_spaces]
            /\ replayQueue' \in ReplayPlan(tracked_channels, tracked_spaces)
            /\ replayLog' = <<>>
       ELSE UNCHANGED <<replaySnapshot, replayQueue, replayLog>>
    /\ UNCHANGED <<tracked_channels, tracked_spaces, earlyDelivery>>
    /\ UNCHANGED typingVars
    /\ NoCallMade
    /\ UNCHANGED dispatchVars
    /\ NoRoundEnded
    /\ heartbeat' = [heartbeat EXCEPT !.pending = 0]
    /\ UNCHANGED http

\* The replay sends its next subscribe message.
ReplayStep ==
    /\ conn = "Connected"
    /\ replayQueue # <<>>
    /\ replayLog' = Append(replayLog, Head(replayQueue))
    /\ replayQueue' = Tail(replayQueue)
    /\ UNCHANGED <<conn, ever_connected, tracked_channels,
                   tracked_spaces, replaySnapshot, earlyDelivery>>
    /\ UNCHANGED typingVars
    /\ NoCallMade
    /\ UNCHANGED dispatchVars
    /\ NoRoundEnded
    /\ UNCHANGED <<heartbeat, http>>

\* Connected -> Reconnecting, on a transport error or an unexpected closure.
ConnLost ==
    /\ conn = "Connected"
    /\ LoseConnection
    /\ UNCHANGED <<ever_connected, tracked_channels, tracked_spaces,
                   replaySnapshot, replayLog, earlyDelivery>>
    /\ UNCHANGED typingVars
    /\ NoCallMade
    /\ UNCHANGED dispatchVars
    /\ NoRoundEnded
    /\ UNCHANGED <<heartbeat, http>>

\* Reconnecting -> Connecting, after the backoff delay.
Backoff ==
    /\ conn = "Reconnecting"
    /\ conn' = "Connecting"
    /\ UNCHANGED <<ever_connected, tracked_channels, tracked_spaces,
                   replayQueue, replaySnapshot, replayLog, earlyDelivery>>
    /\ UNCHANGED typingVars
    /\ NoCallMade
    /\ UNCHANGED dispatchVars
    /\ NoRoundEnded
    /\ UNCHANGED <<heartbeat, http>>

\* Client.close(): awaits Gateway.close() and HTTPClient.close(), nothing
\* else.  The Client keeps no reference to the Typing objects it handed out,
\* so their tasks are left as they are.  [client.py 192-195]
close ==
    /\ conn # "Closed"
    /\ conn' = "Closed"
    /\ replayQueue' = <<>>
    /\ UNCHANGED <<ever_connected, tracked_channels, tracked_spaces,
                   replaySnapshot, replayLog, earlyDelivery>>
    /\ UNCHANGED typingVars
    /\ NoCallMade
    /\ UNCHANGED dispatchVars
    /\ NoRoundEnded
    /\ http' = [http EXCEPT !.session = http_close(http.session)]
    /\ UNCHANGED heartbeat

\* ------------------------------------------------------ Gateway: heartbeat
\* spec.md 4.1 (Heartbeating), 5 and 8: while Connected the session sends a
\* liveness message on a fixed interval and awaits its acknowledgment for a
\* bounded time; the timer is a task of its own, which reads nothing of the
\* inbound stream.  Heartbeats are numbered in the order they are sent.

NoHeartbeat == [sent |-> 0, pending |-> 0, acked |-> {}, timeouts |-> <<>>]

\* The interval has passed: the next heartbeat is sent and awaited.
HeartbeatSend ==
    /\ conn = "Connected"
    /\ heartbeat.pending = 0
    /\ heartbeat.sent < MaxHeartbeats
    /\ heartbeat' = [heartbeat EXCEPT !.sent = @ + 1, !.pending = heartbeat.sent + 1]
    /\ UNCHANGED gatewayVars
    /\ UNCHANGED typingVars
    /\ UNCHANGED dispatchVars
    /\ NoCallMade
    /\ NoRoundEnded
    /\ UNCHANGED http

\* The acknowledgment of the awaited heartbeat arrives within the timeout.
HeartbeatAck ==
    /\ conn = "Connected"
    /\ heartbeat.pending # 0
    /\ heartbeat' = [heartbeat EXCEPT !.acked = @ \cup {heartbeat.pending},
                                      !.pending = 0]
    /\ UNCHANGED gatewayVars
    /\ UNCHANGED typingVars
    /\ UNCHANGED dispatchVars
    /\ NoCallMade
    /\ NoRoundEnded
    /\ UNCHANGED http

\* What a timeout leaves of the heartbeats: the missed one is recorded and is
\* awaited no longer.
AfterTimeout_StillPending(h) == [h EXCEPT !.timeouts = Append(@, h.pending)]

AfterTimeout(h) == [h EXCEPT !.timeouts = Append(@, h.pending), !.pending = 0]

\* The timeout of the awaited heartbeat runs out with no acknowledgment: the
\* state machine forces Connected -> Reconnecting.
HeartbeatTimeout ==
    /\ conn = "Connected"
    /\ heartbeat.pending # 0
    /\ heartbeat' = AfterTimeout(heartbeat)
    /\ LoseConnection
    /\ UNCHANGED <<ever_connected, tracked_channels, tracked_spaces,
                   replaySnapshot, replayLog, earlyDelivery>>
    /\ UNCHANGED typingVars
    /\ UNCHANGED dispatchVars
    /\ NoCallMade
    /\ NoRoundEnded
    /\ UNCHANGED http

\* ------------------------------------------------------------ Subscriptions
\* client.py 209-241: the tracker call, then one awaited Gateway.send.  A
\* raise of the tracker call ends the method before the send.

\* The awaited Gateway.send of a Client method, and the method's outcome.
ClientSend(op, id, msg, wasTracked, tr) ==
    IF tr.raised
    THEN /\ lastCall' = Call(op, id, NoMsg, wasTracked, TRUE, "KeyError")
         /\ UNCHANGED <<conn, replayQueue>>
    ELSE IF SendRaises
    THEN /\ lastCall' = Call(op, id, msg, wasTracked, FALSE, "SessionClosed")
         /\ UNCHANGED <<conn, replayQueue>>
    ELSE /\ lastCall' = Call(op, id, msg, wasTracked, FALSE, None)
         /\ \E o \in SendOutcomes : SendEffect(o)

subscribe_channel_SendFirst(channel_id) ==
    LET tr == track_channel(tracked_channels, channel_id) IN
    /\ tracked_channels' = IF SendRaises THEN tracked_channels ELSE tr.set
    /\ ClientSend("subscribe_channel", channel_id, SubscribeMsg(channel_id),
                  channel_id \in tracked_channels, tr)
    /\ UNCHANGED <<ever_connected, tracked_spaces, replaySnapshot, replayLog,
                   earlyDelivery, typingVars>>
    /\ UNCHANGED dispatchVars
    /\ NoRoundEnded
    /\ UNCHANGED <<heartbeat, http>>

subscribe_channel(channel_id) ==
    LET tr == track_channel(tracked_channels, channel_id) IN
    /\ tracked_channels' = tr.set
    /\ ClientSend("subscribe_channel", channel_id, SubscribeMsg(channel_id),
                  channel_id \in tracked_channels, tr)
    /\ UNCHANGED <<ever_connected, tracked_spaces, replaySnapshot, replayLog,
                   earlyDelivery, typingVars>>
    /\ UNCHANGED dispatchVars
    /\ NoRoundEnded
    /\ UNCHANGED <<heartbeat, http>>

unsubscribe_channel(channel_id) ==
    LET tr == untrack_channel(tracked_channels, channel_id) IN
    /\ tracked_channels' = tr.set
    /\ ClientSend("unsubscribe_channel", channel_id,
                  UnsubscribeMsg(channel_id),
                  channel_id \in tracked_channels, tr)
    /\ UNCHANGED <<ever_connected, tracked_spaces, replaySnapshot, replayLog,
                   earlyDelivery, typingVars>>
    /\ UNCHANGED dispatchVars
    /\ NoRoundEnded
    /\ UNCHANGED <<heartbeat, http>>

subscribe_space(space_id) ==
    LET tr == track_space(tracked_spaces, space_id) IN
    /\ tracked_spaces' = tr.set
    /\ ClientSend("subscribe_space", space_id, SubscribeSpaceMsg(space_id),
                  space_id \in tracked_spaces, tr)
    /\ UNCHANGED <<ever_connected, tracked_channels, replaySnapshot, replayLog,
                   earlyDelivery, typingVars>>
    /\ UNCHANGED dispatchVars
    /\ NoRoundEnded
    /\ UNCHANGED <<heartbeat, http>>

unsubscribe_space(space_id) ==
    LET tr == untrack_space(tracked_spaces, space_id) IN
    /\ tracked_spaces' = tr.set
    /\ ClientSend("unsubscribe_space", space_id,
                  UnsubscribeSpaceMsg(space_id),
                  space_id \in tracked_spaces, tr)
    /\ UNCHANGED <<ever_connected, tracked_channels, replaySnapshot, replayLog,
                   earlyDelivery, typingVars>>
    /\ UNCHANGED dispatchVars
    /\ NoRoundEnded
    /\ UNCHANGED <<heartbeat, http>>

\* Client.send_typing called by the application itself.  [client.py 237-241]
send_typing(channel_id) ==
    /\ ClientSend("send_typing", channel_id, TypingMsg(channel_id), FALSE,
                  TrackResult({}, FALSE))
    /\ UNCHANGED <<ever_connected, tracked_channels, tracked_spaces,
                   replaySnapshot, replayLog, earlyDelivery, typingVars>>
    /\ UNCHANGED dispatchVars
    /\ NoRoundEnded
    /\ UNCHANGED <<heartbeat, http>>

\* ------------------------------------------------------------------ Typing
\* client.py 30-65.  A caller enters a Typing object t with "async with t:";
\* the entry that gets scope id s created task s.  Typing._task is one slot per
\* object: it names the task of the latest entry.

NoTask == 0

TaskRunning == {"created", "sleeping", "sending"}
TaskDone == {"done_ok", "done_cancelled", "done_error"}

NoScope ==
    [st |-> "none", obj |-> 0, awaiting |-> NoTask, entered |-> 0, sent |-> 0]
NoTaskRec == [st |-> "none", cancel |-> FALSE, deadline |-> 0]

FreeScopes == {s \in ScopeIds : scopes[s].st = "none"}

\* asyncio.create_task(self._loop()): the task is scheduled, not yet run.
\* [client.py 48]
create_task == [st |-> "created", cancel |-> FALSE, deadline |-> 0]

\* Task.cancel(): a request, which a task that is already done ignores.
\* [client.py 53]
cancel(task) ==
    IF task.st \in TaskDone THEN task ELSE [task EXCEPT !.cancel = TRUE]

\* Typing.__aenter__: await send_typing, then create the task and store it in
\* self._task.  A send that raises ends __aenter__: no task, no scope.
\* [client.py 46-49]
aenter(t) ==
    IF SendRaises
    THEN /\ lastCall' = Call("typing_enter", t, TypingMsg(t), FALSE, FALSE,
                             "SessionClosed")
         /\ UNCHANGED <<conn, replayQueue, typing_task, scopes, tasks>>
    ELSE /\ FreeScopes # {}
         /\ LET s == CHOOSE x \in FreeScopes : \A y \in FreeScopes : x <= y IN
            /\ scopes' = [scopes EXCEPT ![s] =
                   [st |-> "open", obj |-> t, awaiting |-> NoTask,
                    entered |-> now, sent |-> 1]]
            /\ tasks' = [tasks EXCEPT ![s] = create_task]
            /\ typing_task' = [typing_task EXCEPT ![t] = s]
         /\ lastCall' = Call("typing_enter", t, TypingMsg(t), FALSE, FALSE, None)
         /\ \E o \in SendOutcomes : SendEffect(o)

TypingEnter(t) ==
    /\ aenter(t)
    /\ UNCHANGED <<ever_connected, tracked_channels, tracked_spaces,
                   replaySnapshot, replayLog, earlyDelivery, now>>
    /\ UNCHANGED dispatchVars
    /\ NoRoundEnded
    /\ UNCHANGED <<heartbeat, http>>

\* Typing.__aexit__, up to its await: cancel self._task, whichever entry set
\* it.  The body ended normally or by raising (bodyErr): __aexit__ takes *exc
\* and never reads it, so both cases run the same code.  [client.py 51-55]
aexit_begin(s, bodyErr) ==
    LET k == typing_task[scopes[s].obj] IN
    /\ scopes[s].st = "open"
    /\ IF k # NoTask
       THEN /\ tasks' = [tasks EXCEPT ![k] = cancel(tasks[k])]
            /\ scopes' = [scopes EXCEPT ![s].st = "exiting",
                                        ![s].awaiting = k]
       ELSE /\ tasks' = tasks
            /\ scopes' = [scopes EXCEPT ![s].st = "exited"]

TypingExitBegin(s, bodyErr) ==
    /\ aexit_begin(s, bodyErr)
    /\ UNCHANGED <<gatewayVars, typing_task, now>>
    /\ NoCallMade
    /\ UNCHANGED dispatchVars
    /\ NoRoundEnded
    /\ UNCHANGED <<heartbeat, http>>

\* What "await self._task" in __aexit__ gives once the task is done: a task
\* that returned gives its result; a cancelled task raises CancelledError,
\* which __aexit__ swallows; a task that ended with an exception re-raises it.
\* [client.py 54-57]
aexit_result_uncaught(taskSt) ==
    IF taskSt = "done_ok" THEN "exited" ELSE "exit_raised"

aexit_result(taskSt) ==
    IF taskSt = "done_error" THEN "exit_raised" ELSE "exited"

TypingExitFinish(s) ==
    /\ scopes[s].st = "exiting"
    /\ tasks[scopes[s].awaiting].st \in TaskDone
    /\ scopes' = [scopes EXCEPT ![s].st =
                      aexit_result(tasks[scopes[s].awaiting].st)]
    /\ UNCHANGED <<gatewayVars, typing_task, tasks, now>>
    /\ NoCallMade
    /\ UNCHANGED dispatchVars
    /\ NoRoundEnded
    /\ UNCHANGED <<heartbeat, http>>

\* Typing._loop, first step of the task.  A task cancelled before it ever ran
\* gets CancelledError thrown at the start of the coroutine, outside its try:
\* it ends cancelled.  Otherwise it enters the loop and sleeps.
\* [client.py 59-62]
TaskStart(k) ==
    /\ tasks[k].st = "created"
    /\ tasks' = [tasks EXCEPT ![k] =
           IF tasks[k].cancel
           THEN [@ EXCEPT !.st = "done_cancelled"]
           ELSE [@ EXCEPT !.st = "sleeping", !.deadline = now + 1]]
    /\ UNCHANGED <<gatewayVars, typing_task, scopes, now>>
    /\ NoCallMade
    /\ UNCHANGED dispatchVars
    /\ NoRoundEnded
    /\ UNCHANGED <<heartbeat, http>>

\* Typing._loop: the sleep is over, send_typing is called.  A send that raises
\* is no CancelledError: it ends the task with that exception.
\* [client.py 62-63]
loop_send(k) ==
    IF SendRaises
    THEN /\ tasks' = [tasks EXCEPT ![k].st = "done_error"]
         /\ scopes' = scopes
    ELSE /\ tasks' = [tasks EXCEPT ![k].st = "sending"]
         /\ scopes' = [scopes EXCEPT ![k].sent = @ + 1]

TaskWake(k) ==
    /\ tasks[k].st = "sleeping"
    /\ ~tasks[k].cancel
    /\ tasks[k].deadline <= now
    /\ loop_send(k)
    /\ UNCHANGED <<gatewayVars, typing_task, now>>
    /\ NoCallMade
    /\ UNCHANGED dispatchVars
    /\ NoRoundEnded
    /\ UNCHANGED <<heartbeat, http>>

\* Typing._loop: the awaited send returns and the loop sleeps again.
\* [client.py 61-63]
TaskSendDone(k) ==
    /\ tasks[k].st = "sending"
    /\ ~tasks[k].cancel
    /\ tasks' = [tasks EXCEPT ![k].st = "sleeping", ![k].deadline = now + 1]
    /\ \E o \in SendOutcomes : SendEffect(o)
    /\ UNCHANGED <<ever_connected, tracked_channels, tracked_spaces,
                   replaySnapshot, replayLog, earlyDelivery,
                   typing_task, scopes, now>>
    /\ NoCallMade
    /\ UNCHANGED dispatchVars
    /\ NoRoundEnded
    /\ UNCHANGED <<heartbeat, http>>

\* Typing._loop: CancelledError arrives at the await the task is suspended in
\* (the sleep or the send) and the except clause ends the task normally.
\* [client.py 64-65]
TaskCancelled(k) ==
    /\ tasks[k].st \in {"sleeping", "sending"}
    /\ tasks[k].cancel
    /\ tasks' = [tasks EXCEPT ![k].st = "done_ok"]
    /\ UNCHANGED <<gatewayVars, typing_task, scopes, now>>
    /\ NoCallMade
    /\ UNCHANGED dispatchVars
    /\ NoRoundEnded
    /\ UNCHANGED <<heartbeat, http>>

\* Work the event loop would run without any time passing.
Runnable ==
    \/ \E k \in ScopeIds :
          \/ tasks[k].st \in {"created", "sending"}
          \/ tasks[k].st = "sleeping" /\ (tasks[k].cancel \/ tasks[k].deadline <= now)
    \/ \E s \in ScopeIds :
          scopes[s].st = "exiting" /\ tasks[scopes[s].awaiting].st \in TaskDone

\* One _TYPING_INTERVAL passes.  [client.py 27]
Tick ==
    /\ now < MaxTime
    /\ ~Runnable
    /\ now' = now + 1
    /\ UNCHANGED <<gatewayVars, typing_task, scopes, tasks>>
    /\ NoCallMade
    /\ UNCHANGED dispatchVars
    /\ NoRoundEnded
    /\ UNCHANGED <<heartbeat, http>>

\* ------------------------------------------------- events.py (from spec.md)
\* spec.md 4.3 step 1: a static table from the raw event kind to the canonical
\* event name; spec.md 8 names "message_create" as a mapped kind and
\* "some_future_event" as one that is not.

RawKinds == {"ready", "message_create", "some_future_event"}

EVENT_MAP == ("ready" :> "ready") @@ ("message_create" :> "message")

\* An Event Envelope: the raw kind and the payload.  Of the payload the model
\* keeps what the code reads: the "user_id" entry, and whether parse_event
\* accepts it (spec.md 6: it fails only "when a required identifying field is
\* absent").
Envelopes ==
    {[kind |-> "ready", user_id |-> "u1", parses |-> TRUE],
     [kind |-> "message_create", user_id |-> None, parses |-> TRUE],
     [kind |-> "some_future_event", user_id |-> None, parses |-> TRUE]}

NoEnv == [kind |-> None, user_id |-> None, parses |-> TRUE, seq |-> 0]

\* ------------------------------------------------------ Client: registration
\* A function name is the sequence of its parts, so that f"on_{mapped}" and
\* startswith("on_") are computed and not looked up.

Coro(name, id) == [name |-> name, id |-> id]

\* The coroutine functions the application defines.
Coros ==
    {Coro(<<"on_", "ready">>, 1),
     Coro(<<"on_", "message">>, 1),
     Coro(<<"on_", "message">>, 2),
     Coro(<<"on_", "some_future_event">>, 1),
     Coro(<<"handle_message">>, 1)}

\* No name: the None (or empty) event_name of listen().
NoName == <<>>

\* The listen() calls it makes, each as often as it likes: the event name
\* (NoName: listen() without an argument) and the coroutine function.
ListenCalls ==
    {<<NoName, Coro(<<"on_", "message">>, 1)>>,
     <<<<"on_", "message">>, Coro(<<"handle_message">>, 1)>>}

Names == {c.name : c \in Coros}

\* name.startswith("on_")  [client.py 127]
StartsWithOn(name) == Len(name) >= 1 /\ name[1] = "on_"

\* The coroutine functions whose names event() accepts.
EventCoros == {c \in Coros : StartsWithOn(c.name)}

\* f"on_{mapped}"  [client.py 162]
HandlerName(mapped) == <<"on_", mapped>>

\* Client.event(coro)  [client.py 115-130]
event_KeepFirst(coro) ==
    /\ IF ~StartsWithOn(coro.name)
       THEN /\ lastReg' = "ValueError"
            /\ event_handlers' = event_handlers
       ELSE /\ lastReg' = "ok"
            /\ event_handlers' =
                  IF event_handlers[coro.name] = NoCoro
                  THEN [event_handlers EXCEPT ![coro.name] = coro]
                  ELSE event_handlers
    /\ UNCHANGED <<listeners, listenLog, user_id, roundVars>>
    /\ NoRoundEnded
    /\ UNCHANGED <<gatewayVars, typingVars>>
    /\ NoCallMade
    /\ UNCHANGED <<heartbeat, http>>

event(coro) ==
    /\ IF ~StartsWithOn(coro.name)
       THEN /\ lastReg' = "ValueError"
            /\ event_handlers' = event_handlers
       ELSE /\ lastReg' = "ok"
            /\ event_handlers' = [event_handlers EXCEPT ![coro.name] = coro]
    /\ UNCHANGED <<listeners, listenLog, user_id, roundVars>>
    /\ NoRoundEnded
    /\ UNCHANGED <<gatewayVars, typingVars>>
    /\ NoCallMade
    /\ UNCHANGED <<heartbeat, http>>

\* Client.listen(event_name)(coro): "event_name or coro.__name__" is the key,
\* and the coroutine is appended to the key's list.  [client.py 132-150]
listen(event_name, coro) ==
    LET key == IF event_name = NoName THEN coro.name ELSE event_name IN
    /\ Len(listenLog) < MaxListeners
    /\ listeners' = [listeners EXCEPT ![key] = Append(@, coro)]
    /\ listenLog' = Append(listenLog, [key |-> key, coro |-> coro])
    /\ UNCHANGED <<event_handlers, lastReg, user_id, roundVars>>
    /\ NoRoundEnded
    /\ UNCHANGED <<gatewayVars, typingVars>>
    /\ NoCallMade
    /\ UNCHANGED <<heartbeat, http>>

\* --------------------------------------------------------- Client._dispatch
\* client.py 154-184.  _dispatch has two awaits: the primary handler and each
\* listener.  pc says at which of them the running _dispatch is suspended.

NoRound == [hreg |-> NoCoro, hcoro |-> NoCoro, hres |-> "none", invoked |-> <<>>,
            failedAt |-> 0, baseAt |-> 0, regs0 |-> <<>>]

\* EVENT_MAP.get(event_type)  [client.py 157]
EventMapGet_Default(event_type) ==
    IF event_type \in DOMAIN EVENT_MAP THEN EVENT_MAP[event_type] ELSE event_type

EventMapGet(event_type) ==
    IF event_type \in DOMAIN EVENT_MAP THEN EVENT_MAP[event_type] ELSE None

\* dict.get(name) / dict.get(name, []) on the two registries
\* [client.py 172, 180]
HandlerGet(name) ==
    IF name \in DOMAIN event_handlers THEN event_handlers[name] ELSE NoCoro
ListenersGet(name) ==
    IF name \in DOMAIN listeners THEN listeners[name] ELSE <<>>

\* "except Exception" around the awaited handler: what it lets through.  An
\* outcome is "ok" (returned), "error" (raised an Exception) or "base" (raised
\* a BaseException that is no Exception: a cancellation, an interpreter exit).
\* [client.py 174-177]
HandlerPropagates_NoTry(outcome) == outcome # "ok"

HandlerPropagates(outcome) == outcome = "base"

\* "except Exception" around the awaited listener.  [client.py 181-184]
ListenerPropagates(outcome) == outcome = "base"

Outcomes == {"ok", "error", "base"}

\* _dispatch ends, by returning or by raising.
RoundEnd(e, name, result, r, fl) ==
    /\ last' = [seq |-> e.seq, kind |-> e.kind, result |-> result,
                hreg |-> r.hreg, hcoro |-> r.hcoro, hres |-> r.hres,
                invoked |-> r.invoked, failedAt |-> r.failedAt,
                baseAt |-> r.baseAt,
                regs |-> ListenersGet(name),
                regs0 |-> r.regs0,
                afterFailure |-> prevFailed]
    /\ prevFailed' = (r.hres = "error")
    /\ pc' = "idle"
    /\ cur' = NoEnv
    /\ idx' = 0
    /\ round' = NoRound
    /\ inflight' = fl

\* The for statement over the key's list: the list iterator gives item i if
\* the list, as it is now, has one, and the listener is awaited; otherwise the
\* loop and _dispatch end.  [client.py 180-182]
ListenerLoop_Reversed(e, name, i, r, fl) ==
    IF i <= Len(ListenersGet(name))
    THEN /\ pc' = "listener"
         /\ cur' = e
         /\ idx' = i
         /\ round' = [r EXCEPT !.invoked =
                Append(@, ListenersGet(name)[Len(ListenersGet(name)) + 1 - i])]
         /\ inflight' = fl \cup {e.seq}
         /\ prevFailed' = prevFailed
         /\ NoRoundEnded
    ELSE RoundEnd(e, name, "returned", r, fl)

ListenerLoop(e, name, i, r, fl) ==
    IF i <= Len(ListenersGet(name))
    THEN /\ pc' = "listener"
         /\ cur' = e
         /\ idx' = i
         /\ round' = [r EXCEPT !.invoked = Append(@, ListenersGet(name)[i])]
         /\ inflight' = fl \cup {e.seq}
         /\ prevFailed' = prevFailed
         /\ NoRoundEnded
    ELSE RoundEnd(e, name, "returned", r, fl)

\* "if mapped == "ready": self.user_id = data.get("user_id")": the user_id
\* after it.  [client.py 165-166]
ReadyUserId_Kept(mapped, e) == user_id

ReadyUserId(mapped, e) == IF mapped = "ready" THEN e.user_id ELSE user_id

\* parse_event(event_type, data) is called outside any try statement: a
\* failure of the parser leaves _dispatch.  [client.py 168-169]
ParsePropagates_Caught(e) == FALSE

ParsePropagates(e) == ~e.parses

\* _dispatch from its call to its first await (or to its end).
\* [client.py 154-175, 180-182]
dispatch_begin(e) ==
    LET mapped == EventMapGet(e.kind) IN
    IF mapped = None
    THEN /\ user_id' = user_id
         /\ RoundEnd(e, NoName, "returned", NoRound, inflight)
    ELSE LET name == HandlerName(mapped)
             handler == HandlerGet(name)
             r == [NoRound EXCEPT !.hreg = handler,
                                  !.regs0 = ListenersGet(name)]
         IN
         /\ user_id' = ReadyUserId(mapped, e)
         /\ IF ParsePropagates(e)
            THEN RoundEnd(e, name, "raised_parse", r, inflight)
            ELSE IF handler # NoCoro
            THEN /\ pc' = "handler"
                 /\ cur' = e
                 /\ idx' = 0
                 /\ round' = [r EXCEPT !.hcoro = handler]
                 /\ inflight' = inflight \cup {e.seq}
                 /\ prevFailed' = prevFailed
                 /\ NoRoundEnded
            ELSE ListenerLoop(e, name, 1, r, inflight)

CurName == HandlerName(EventMapGet(cur.kind))

\* The awaited primary handler ends.  [client.py 174-182]
HandlerReturns(outcome) ==
    /\ pc = "handler"
    /\ LET r == [round EXCEPT !.hres = outcome]
           fl == inflight \ {cur.seq}
       IN IF HandlerPropagates(outcome)
          THEN RoundEnd(cur, CurName, "raised_handler", r, fl)
          ELSE ListenerLoop(cur, CurName, 1, r, fl)
    /\ UNCHANGED <<user_id, registrationVars, inbox, received, dispatched>>
    /\ UNCHANGED <<gatewayVars, typingVars>>
    /\ NoCallMade
    /\ UNCHANGED <<heartbeat, http>>

\* The awaited listener ends.  [client.py 180-184]
ListenerReturns(outcome) ==
    /\ pc = "listener"
    /\ LET r == [round EXCEPT
                     !.failedAt = IF outcome = "error" /\ @ = 0 THEN idx ELSE @,
                     !.baseAt = IF outcome = "base" THEN idx ELSE @]
           fl == inflight \ {cur.seq}
       IN IF ListenerPropagates(outcome)
          THEN RoundEnd(cur, CurName, "raised_listener", r, fl)
          ELSE ListenerLoop(cur, CurName, idx + 1, r, fl)
    /\ UNCHANGED <<user_id, registrationVars, inbox, received, dispatched>>
    /\ UNCHANGED <<gatewayVars, typingVars>>
    /\ NoCallMade
    /\ UNCHANGED <<heartbeat, http>>

\* ------------------------------------------- Gateway: the inbound stream
\* spec.md 4.3 and 5: "one logical connection drives a single ordered stream
\* of inbound events, processed by one conceptual worker"; 4.1: after a
\* reconnect nothing is delivered before the replay is over.

\* The transport hands the session one more envelope.
TransportReceive(e) ==
    /\ conn = "Connected"
    /\ received < MaxEnvelopes
    /\ received' = received + 1
    /\ inbox' = Append(inbox, [kind |-> e.kind, user_id |-> e.user_id,
                               parses |-> e.parses, seq |-> received + 1])
    /\ UNCHANGED <<user_id, registrationVars, dispatched, pc, cur, idx, round,
                   prevFailed, inflight>>
    /\ NoRoundEnded
    /\ UNCHANGED <<gatewayVars, typingVars>>
    /\ NoCallMade
    /\ UNCHANGED <<heartbeat, http>>

\* _dispatch has returned (or raised) to the gateway, which awaits it: a
\* _dispatch suspended in a handler or a listener has not.  [client.py 154-184]
DispatchReturned_Early == TRUE

DispatchReturned == pc = "idle"

\* The envelope the worker takes next: the oldest.
NextEnvelope(q) == Head(q)

Without(q, e) ==
    LET i == CHOOSE j \in DOMAIN q : q[j] = e
    IN SubSeq(q, 1, i - 1) \o SubSeq(q, i + 1, Len(q))

\* The worker may take the next envelope.
ReplayDone == replayQueue = <<>>

\* The worker calls Client._dispatch with the next envelope and awaits it.
GatewayDeliver ==
    /\ conn = "Connected"
    /\ ReplayDone
    /\ DispatchReturned
    /\ inbox # <<>>
    /\ LET e == NextEnvelope(inbox) IN
       /\ inbox' = Without(inbox, e)
       /\ dispatched' = dispatched + 1
       /\ earlyDelivery' = (earlyDelivery \/ replayQueue # <<>>)
       /\ dispatch_begin(e)
    /\ UNCHANGED <<registrationVars, received>>
    /\ UNCHANGED <<conn, ever_connected, tracked_channels, tracked_spaces,
                   replayQueue, replaySnapshot, replayLog,
                   typingVars>>
    /\ NoCallMade
    /\ UNCHANGED <<heartbeat, http>>

\* ----------------------------------------------------------- specification

Init ==
    /\ conn = "Disconnected"
    /\ ever_connected = FALSE
    /\ tracked_channels = {}
    /\ tracked_spaces = {}
    /\ replayQueue = <<>>
    /\ replaySnapshot = [channels |-> {}, spaces |-> {}]
    /\ replayLog = <<>>
    /\ earlyDelivery = FALSE
    /\ heartbeat = NoHeartbeat
    /\ http = NoHTTP
    /\ lastCall = NoCall
    /\ typing_task = [t \in TypingObjs |-> NoTask]
    /\ scopes = [s \in ScopeIds |-> NoScope]
    /\ tasks = [s \in ScopeIds |-> NoTaskRec]
    /\ now = 0
    /\ user_id = None
    /\ event_handlers = [n \in Names |-> NoCoro]
    /\ listeners = [n \in Names |-> <<>>]
    /\ lastReg = "ok"
    /\ listenLog = <<>>
    /\ inbox = <<>>
    /\ received = 0
    /\ dispatched = 0
    /\ pc = "idle"
    /\ cur = NoEnv
    /\ idx = 0
    /\ round = NoRound
    /\ last = NoLast
    /\ prevFailed = FALSE
    /\ inflight = {}

SessionNext ==
    \/ Start
    \/ ConnectOk
    \/ ReadyAck
    \/ ConnLost
    \/ Backoff
    \/ close

\* The exits of the entered scopes, the steps of their tasks, the clock.
TypingRun ==
    \/ \E s \in ScopeIds, bodyErr \in BOOLEAN : TypingExitBegin(s, bodyErr)
    \/ \E s \in ScopeIds : TypingExitFinish(s)
    \/ \E k \in ScopeIds : TaskStart(k)
    \/ \E k \in ScopeIds : TaskWake(k)
    \/ \E k \in ScopeIds : TaskSendDone(k)
    \/ \E k \in ScopeIds : TaskCancelled(k)
    \/ Tick

TypingNext ==
    \/ \E t \in TypingObjs : TypingEnter(t)
    \/ TypingRun

SubscriptionNext ==
    \/ \E c \in ChannelIds : subscribe_channel(c)
    \/ \E c \in ChannelIds : unsubscribe_channel(c)
    \/ \E x \in SpaceIds : subscribe_space(x)
    \/ \E x \in SpaceIds : unsubscribe_space(x)
    \/ ReplayStep

NextTyping == SessionNext \/ TypingNext
SpecTyping == Init /\ [][NextTyping]_vars

InboundNext ==
    \/ \E e \in Envelopes : TransportReceive(e)
    \/ GatewayDeliver

\* Registrations of an application that names its handlers as event() asks.
RegistrationNext ==
    \/ \E c \in EventCoros : event(c)
    \/ \E l \in ListenCalls : listen(l[1], l[2])

HandlersNext ==
    \/ \E o \in Outcomes : HandlerReturns(o)
    \/ \E o \in Outcomes : ListenerReturns(o)

\* The inbound stream of the session specification: what an envelope holds
\* plays no part in when it is delivered.
SessionEnvelopes ==
    {[kind |-> "message_create", user_id |-> None, parses |-> TRUE]}

NextSession ==
    \/ SessionNext
    \/ SubscriptionNext
    \/ \E e \in SessionEnvelopes : TransportReceive(e)
    \/ GatewayDeliver
SpecSession == Init /\ [][NextSession]_vars

\* Calls of the subscription methods and of send_typing: what is tracked
\* plays no part in whether a call raises, so one channel and one space are
\* enough.
CallsNext ==
    \/ subscribe_channel("c1")
    \/ unsubscribe_channel("c1")
    \/ subscribe_space("s1")
    \/ unsubscribe_space("s1")
    \/ send_typing("c1")

\* The application enters one typing scope.
TypingEnterOnce ==
    /\ \A s \in ScopeIds : scopes[s].st = "none"
    /\ TypingEnter(1)

\* A session that connects once (a lost connection is not re-established, so
\* no replay takes place), one typing scope and the calls.
NextCalls ==
    \/ Start
    \/ ConnectOk
    \/ ReadyAck
    \/ close
    \/ TypingEnterOnce
    \/ TypingRun
    \/ CallsNext
SpecCalls == Init /\ [][NextCalls]_vars

NextDispatch ==
    \/ Start
    \/ ConnectOk
    \/ ReadyAck
    \/ InboundNext
    \/ RegistrationNext
    \/ HandlersNext
SpecDispatch == Init /\ [][NextDispatch]_vars

\* Registrations of any application, a function that event() refuses among
\* them, with the dispatch of message envelopes.
NextRegistration ==
    \/ Start
    \/ ConnectOk
    \/ ReadyAck
    \/ \E e \in SessionEnvelopes : TransportReceive(e)
    \/ GatewayDeliver
    \/ \E c \in Coros : event(c)
    \/ \E l \in ListenCalls : listen(l[1], l[2])
    \/ HandlersNext
SpecRegistration == Init /\ [][NextRegistration]_vars

\* Envelopes of known kinds, some with a payload the parser fails on.
ParseEnvelopes ==
    {[kind |-> "ready", user_id |-> "u1", parses |-> TRUE],
     [kind |-> "ready", user_id |-> "u2", parses |-> FALSE],
     [kind |-> "message_create", user_id |-> None, parses |-> TRUE],
     [kind |-> "message_create", user_id |-> None, parses |-> FALSE]}

\* The dispatch of such envelopes with handlers and listeners registered
\* for both kinds.
NextParse ==
    \/ Start
    \/ ConnectOk
    \/ ReadyAck
    \/ \E e \in ParseEnvelopes : TransportReceive(e)
    \/ GatewayDeliver
    \/ \E c \in {Coro(<<"on_", "ready">>, 1), Coro(<<"on_", "message">>, 1)} :
           event(c)
    \/ \E c \in {Coro(<<"on_", "ready">>, 1), Coro(<<"on_", "message">>, 1)} :
           listen(NoName, c)
    \/ HandlersNext
SpecParse == Init /\ [][NextParse]_vars

\* The REST layer: calls of the operations with every response, and close().
NextHTTP ==
    \/ \E op \in RestOps, status \in Statuses, body \in Bodies :
           RestCall(op, status, body)
    \/ close

SpecHTTP == Init /\ [][NextHTTP]_vars

\* The session with its heartbeat and an inbound stream.  The timer of an
\* awaited heartbeat does run out unless the wait ends first.
NextHeartbeat ==
    \/ SessionNext
    \/ HeartbeatSend
    \/ HeartbeatAck
    \/ HeartbeatTimeout
    \/ \E e \in SessionEnvelopes : TransportReceive(e)
    \/ GatewayDeliver
SpecHeartbeat ==
    Init /\ [][NextHeartbeat]_vars /\ WF_vars(HeartbeatTimeout)

\* --------------------------------------------------------------- properties

\* The _dispatch that ended in the step just taken got past the event map
\* and the parse.
RoundRan == last # NoLast /\ last.result \notin {"none", "raised_parse"}
                /\ EventMapGet(last.kind) # None

\* The listeners that _dispatch invoked are the first ones of the key's list,
\* in the list's order.
InvokedIsPrefix ==
    /\ Len(last.invoked) <= Len(last.regs)
    /\ last.invoked = SubSeq(last.regs, 1, Len(last.invoked))

\* _dispatch raised out of its listener loop only for a listener that raised
\* a BaseException which is no Exception.
EarlyEndOnlyByBase ==
    last.result = "raised_listener" => last.baseAt = Len(last.invoked)

\* A full round: the registered primary handler was invoked, then every
\* listener of the key's list, once each and in order.
FullRound ==
    /\ last.hcoro = last.hreg
    /\ last.invoked = last.regs

\* C1 - Dispatch isolation.  When the primary handler of a mapped, parsed
\* envelope raises an Exception, _dispatch goes on to the listeners of the
\* same name and invokes every one of them, and it does not raise the
\* handler's failure; and the _dispatch that follows one whose handler failed
\* runs its own round in full: its registered handler, then every listener.
\* (Only a listener that raises a BaseException which is no Exception, such
\* as a cancellation, can end either round early.)
C1_DispatchIsolation ==
    /\ (RoundRan /\ last.hres = "error") =>
          /\ last.result \in {"returned", "raised_listener"}
          /\ EarlyEndOnlyByBase
          /\ InvokedIsPrefix
          /\ last.result = "returned" => FullRound
    /\ (RoundRan /\ last.afterFailure) =>
          /\ last.hcoro = last.hreg
          /\ last.hres \in {"ok", "error"} =>
                /\ last.result \in {"returned", "raised_listener"}
                /\ EarlyEndOnlyByBase
                /\ InvokedIsPrefix
                /\ last.result = "returned" => FullRound

\* A handler failed, and in the _dispatch after it the handler failed again
\* and two listeners still ran.
C1_Witness ==
    /\ RoundRan
    /\ last.afterFailure
    /\ last.hres = "error"
    /\ last.result = "returned"
    /\ Len(last.invoked) = 2

\* The coroutines that the listen() calls made so far registered under a
\* key, in the order of the calls.
RegisteredVia(key) ==
    LET calls == SelectSeq(listenLog, LAMBDA c : c.key = key)
    IN [i \in 1..Len(calls) |-> calls[i].coro]

\* C2 - Listener order and isolation.  Whenever _dispatch gets to its
\* listener loop, the listeners it invokes are the ones the listen() calls
\* registered under the event's name, taken from the first on in the order
\* of those calls, each once per registration; and when a listener raises an
\* Exception the listeners registered after it are still invoked: only a
\* listener raising a BaseException which is no Exception ends the loop
\* early, and a _dispatch that returns has invoked them all.
C2_ListenerOrder ==
    (RoundRan /\ last.hres \in {"none", "ok", "error"}) =>
        /\ last.regs = RegisteredVia(HandlerName(EventMapGet(last.kind)))
        /\ InvokedIsPrefix
        /\ last.result \in {"returned", "raised_listener"}
        /\ EarlyEndOnlyByBase
        /\ last.result = "returned" => last.invoked = last.regs

\* The first of two different listeners raised an Exception and the second
\* was invoked after it.
C2_Witness ==
    /\ RoundRan
    /\ last.failedAt = 1
    /\ Len(last.invoked) = 2
    /\ last.invoked[1] # last.invoked[2]
    /\ last.result = "returned"

\* C3 - Unknown-kind tolerance.  A _dispatch of an envelope whose raw kind is
\* no key of EVENT_MAP ends in the step that began it, having invoked no
\* handler and no listener and raised nothing, with user_id and both
\* registries as they were, whatever is registered (a handler named after the
\* raw kind included).
C3_UnknownKind ==
    [][(last' # NoLast /\ last'.kind \notin DOMAIN EVENT_MAP) =>
          /\ pc = "idle" /\ pc' = "idle"
          /\ last'.result = "returned"
          /\ last'.hcoro = NoCoro
          /\ last'.invoked = <<>>
          /\ user_id' = user_id
          /\ event_handlers' = event_handlers
          /\ listeners' = listeners]_vars

\* An envelope of unknown kind was dispatched while a handler named after
\* that kind was registered and a ready envelope had set user_id.
C3_Witness ==
    /\ last # NoLast
    /\ last.kind = "some_future_event"
    /\ event_handlers[<<"on_", "some_future_event">>] # NoCoro
    /\ user_id # None

\* C4 - Ordering.  Envelopes reach _dispatch in the order the transport
\* received them (the n-th _dispatch is of the n-th envelope received, and
\* the ones waiting are the next ones, in order), and invocations of two
\* envelopes never overlap: while a handler or listener of an envelope is
\* suspended in an await, that envelope is the only one with an invocation
\* under way, and no later envelope has been handed to _dispatch.
C4_Ordering ==
    /\ \A i \in DOMAIN inbox : inbox[i].seq = dispatched + i
    /\ last # NoLast => last.seq = dispatched
    /\ inflight \subseteq {dispatched}
    /\ pc # "idle" => cur.seq = dispatched /\ inflight = {cur.seq}
    /\ pc = "idle" => inflight = {}

\* The second envelope's listener is suspended in an await, after the
\* round of the first envelope, whose handler had failed.
C4_Witness ==
    /\ pc = "listener"
    /\ cur.seq = 2
    /\ inflight = {2}
    /\ prevFailed

\* C5 - Typing scope exit.  Once __aexit__ of a scope has returned (or
\* raised), the background task which that scope's entry created has ended.
C5_ExitStopsTask ==
    \A s \in ScopeIds :
        scopes[s].st \in {"exited", "exit_raised"} => tasks[s].st \in TaskDone

C7_CloseStopsTyping ==
    (conn = "Closed" /\ ever_connected) => \A k \in ScopeIds : tasks[k].st \notin TaskRunning

\* What the replay has sent since the last reconnect and what it has yet to
\* send.
ReplayAll == replayLog \o replayQueue

\* C8 - Reconnect replay.  After a reconnect the replay sends, and until the
\* connection is lost again has sent or has queued, exactly one subscribe
\* message for each channel id and one subscribe_space message for each space
\* id that was tracked at the reconnect, nothing else, and every subscribe
\* before every subscribe_space; and no envelope is handed to _dispatch while
\* a replay has messages left to send.
C8_ReconnectReplay ==
    /\ earlyDelivery = FALSE
    /\ \A i, j \in DOMAIN ReplayAll :
          (i < j) => ~(/\ ReplayAll[i].type = "subscribe_space"
                       /\ ReplayAll[j].type = "subscribe")
    /\ \A i, j \in DOMAIN ReplayAll : ReplayAll[i] = ReplayAll[j] => i = j
    /\ Range(ReplayAll) \subseteq
          {SubscribeMsg(c) : c \in replaySnapshot.channels}
              \cup {SubscribeSpaceMsg(x) : x \in replaySnapshot.spaces}
    /\ conn = "Connected" =>
          Range(ReplayAll) =
              {SubscribeMsg(c) : c \in replaySnapshot.channels}
                  \cup {SubscribeSpaceMsg(x) : x \in replaySnapshot.spaces}

\* A reconnect with two channels and a space tracked: the replay has sent
\* its three messages, and an envelope has then been dispatched.
C8_Witness ==
    /\ conn = "Connected"
    /\ replayQueue = <<>>
    /\ Len(replayLog) = 3
    /\ last # NoLast

\* C9 - Tracker idempotence.  Whatever calls came before: subscribe_channel
\* of an id leaves the tracked channels as the set with that id added, so a
\* second call in a row changes nothing; unsubscribe_channel of an id that is
\* not tracked leaves both tracked sets as they were, and the tracker raises
\* nothing in either (the only raise of such a call is the send's on a Closed
\* session); and the same for spaces.
C9_TrackerIdempotence ==
    [][/\ \A c \in ChannelIds :
            /\ subscribe_channel(c) =>
                  /\ tracked_channels' = tracked_channels \cup {c}
                  /\ c \in tracked_channels' =>
                        track_channel(tracked_channels', c).set = tracked_channels'
                  /\ tracked_spaces' = tracked_spaces
                  /\ ~lastCall'.trackRaised
                  /\ lastCall'.raised # None => conn = "Closed"
            /\ (unsubscribe_channel(c) /\ c \notin tracked_channels) =>
                  /\ tracked_channels' = tracked_channels
                  /\ tracked_spaces' = tracked_spaces
                  /\ ~lastCall'.trackRaised
                  /\ lastCall'.raised # None => conn = "Closed"
       /\ \A x \in SpaceIds :
            /\ subscribe_space(x) =>
                  /\ tracked_spaces' = tracked_spaces \cup {x}
                  /\ x \in tracked_spaces' =>
                        track_space(tracked_spaces', x).set = tracked_spaces'
                  /\ tracked_channels' = tracked_channels
                  /\ ~lastCall'.trackRaised
                  /\ lastCall'.raised # None => conn = "Closed"
            /\ (unsubscribe_space(x) /\ x \notin tracked_spaces) =>
                  /\ tracked_spaces' = tracked_spaces
                  /\ tracked_channels' = tracked_channels
                  /\ ~lastCall'.trackRaised
                  /\ lastCall'.raised # None => conn = "Closed"]_vars

\* unsubscribe_channel was called for a channel that was not tracked, while
\* another channel was, and returned.
C9_Witness ==
    /\ lastCall.op = "unsubscribe_channel"
    /\ ~lastCall.wasTracked
    /\ lastCall.raised = None
    /\ tracked_channels # {}

\* The operations of the application that end in a Gateway.send.
SendingOps ==
    {"subscribe_channel", "unsubscribe_channel", "subscribe_space",
     "unsubscribe_space", "send_typing", "typing_enter"}

Awaited(k) == conn = "Connected" /\ heartbeat.pending = k

\* C11 - Heartbeat timeout.  A heartbeat whose timeout runs out takes the
\* session from Connected to Reconnecting in that very step, and is recorded
\* once: no heartbeat times out twice, none that was acknowledged times out,
\* and one that timed out is awaited no longer, so it cannot cause a second
\* transition.  Inbound envelopes change nothing of this.  And the session
\* does not stay Connected for ever awaiting an acknowledgment: the wait for
\* each heartbeat ends, by its acknowledgment, by the timeout's transition
\* or by the connection ending otherwise.
C11_HeartbeatTimeout ==
    /\ [](/\ \A i, j \in DOMAIN heartbeat.timeouts :
                heartbeat.timeouts[i] = heartbeat.timeouts[j] => i = j
          /\ Range(heartbeat.timeouts) \cap heartbeat.acked = {}
          /\ heartbeat.pending \notin
                Range(heartbeat.timeouts) \cup heartbeat.acked
          /\ Range(heartbeat.timeouts) \cup heartbeat.acked
                \subseteq 1..heartbeat.sent)
    /\ [][/\ heartbeat'.timeouts # heartbeat.timeouts =>
                /\ conn = "Connected" /\ conn' = "Reconnecting"
                /\ heartbeat'.timeouts =
                       Append(heartbeat.timeouts, heartbeat.pending)
          /\ (conn = "Connected" /\ conn' = "Connected"
                /\ heartbeat.pending # 0 /\ heartbeat'.pending = 0) =>
                heartbeat'.acked = heartbeat.acked \cup {heartbeat.pending}]_vars
    /\ \A k \in 1..MaxHeartbeats : Awaited(k) ~> ~Awaited(k)

\* The second heartbeat timed out, on a connection re-established after the
\* first had timed out, while an envelope received meanwhile waited.
C11_Witness ==
    /\ Len(heartbeat.timeouts) = 2
    /\ conn = "Reconnecting"
    /\ inbox # <<>>

\* C12: every REST operation issues exactly one HTTP request per call and
\* turns the response into its outcome by the status alone: 404 raises
\* NotFound, 403 Forbidden, any other status >= 400 the generic HTTPException,
\* each carrying the status and the body, and a status < 400 never raises.
\* Stated for the responses whose body is JSON.
C12_StatusCategories ==
    /\ http.requests = http.calls
    /\ (http.last.op \in RestOps /\ http.last.body.type # "invalid") =>
         LET st == http.last.status
             o  == http.last.outcome
         IN  IF st >= 400
             THEN /\ o.raised = (IF st = 404 THEN "NotFound"
                                 ELSE IF st = 403 THEN "Forbidden"
                                 ELSE "HTTPException")
                  /\ o.status = st
                  /\ o.body.value \in
                       {http.last.body.value, <<"error">> \o http.last.body.value}
             ELSE o.raised = "none"

\* C13: while the primary handler or a listener of a ready envelope runs,
\* user_id is the user_id of that envelope's payload, and user_id changes in
\* no step but the one that starts the dispatch of a ready envelope, where it
\* becomes the payload's: the dispatch of an envelope of any other kind, and
\* every later step of a round, leaves it as it was.
C13_ReadySideEffect ==
    /\ [](pc \in {"handler", "listener"} /\ EventMapGet(cur.kind) = "ready"
            => user_id = cur.user_id)
    /\ [][/\ (dispatched' # dispatched /\ EventMapGet(Head(inbox).kind) # "ready")
               => user_id' = user_id
          /\ user_id' # user_id
               => /\ dispatched' = dispatched + 1
                  /\ EventMapGet(Head(inbox).kind) = "ready"
                  /\ user_id' = Head(inbox).user_id]_vars

\* A listener of a ready envelope is running, after its primary handler, and
\* user_id is the payload's.
C13_Witness ==
    /\ pc = "listener"
    /\ cur.kind = "ready"
    /\ round.hcoro # NoCoro
    /\ user_id = "u1"

\* C14: a subscribe call leaves its id tracked and an unsubscribe call leaves
\* it untracked, whether or not the send raised or lost the connection and
\* whatever the connection state was; the one message the call hands to the
\* send is of the call's type and carries the call's id; and the tracked sets
\* change in no other way, so that each is at all times the set of the ids
\* whose last call was a subscribe.
C14_SubscriptionPairing ==
    [][LET call == lastCall' IN
       /\ call.op = "subscribe_channel" =>
            /\ tracked_channels' = tracked_channels \cup {call.id}
            /\ tracked_spaces' = tracked_spaces
            /\ call.msg = SubscribeMsg(call.id)
       /\ call.op = "unsubscribe_channel" =>
            /\ tracked_channels' = tracked_channels \ {call.id}
            /\ tracked_spaces' = tracked_spaces
            /\ call.msg = UnsubscribeMsg(call.id)
       /\ call.op = "subscribe_space" =>
            /\ tracked_spaces' = tracked_spaces \cup {call.id}
            /\ tracked_channels' = tracked_channels
            /\ call.msg = SubscribeSpaceMsg(call.id)
       /\ call.op = "unsubscribe_space" =>
            /\ tracked_spaces' = tracked_spaces \ {call.id}
            /\ tracked_channels' = tracked_channels
            /\ call.msg = UnsubscribeSpaceMsg(call.id)
       /\ call.op \notin {"subscribe_channel", "unsubscribe_channel",
                          "subscribe_space", "unsubscribe_space"} =>
            UNCHANGED <<tracked_channels, tracked_spaces>>]_vars

\* A subscribe_channel on a Closed session: the send raised, the id is
\* tracked, next to an id subscribed earlier.
C14_Witness ==
    /\ lastCall.op = "subscribe_channel"
    /\ lastCall.raised = "SessionClosed"
    /\ ~lastCall.wasTracked
    /\ lastCall.msg = SubscribeMsg(lastCall.id)
    /\ lastCall.id \in tracked_channels
    /\ tracked_channels = ChannelIds

\* C15: the primary handlers are one per name at most, each under its own
\* name, which starts with "on_".  event() of a function with such a name
\* puts it in the place of whatever was registered under the name and leaves
\* the other names and the listeners alone; event() of any other function
\* raises ValueError and leaves handlers and listeners as they were.
\* listen() appends the function to its key's list and leaves the other lists
\* and the handlers alone.  A _dispatch that invokes a primary handler invokes
\* the one registered under the name at that moment: the latest.
C15_Registration ==
    /\ [](\A n \in Names : event_handlers[n] # NoCoro =>
              event_handlers[n].name = n /\ StartsWithOn(n))
    /\ [][/\ \A c \in Coros : event(c) =>
               IF StartsWithOn(c.name)
               THEN /\ lastReg' = "ok"
                    /\ event_handlers'[c.name] = c
                    /\ \A n \in Names \ {c.name} :
                           event_handlers'[n] = event_handlers[n]
                    /\ listeners' = listeners
               ELSE /\ lastReg' = "ValueError"
                    /\ UNCHANGED <<event_handlers, listeners>>
          /\ \A l \in ListenCalls : listen(l[1], l[2]) =>
               LET key == IF l[1] = NoName THEN l[2].name ELSE l[1] IN
               /\ listeners'[key] = Append(listeners[key], l[2])
               /\ \A n \in Names \ {key} : listeners'[n] = listeners[n]
               /\ event_handlers' = event_handlers
          /\ (pc = "idle" /\ pc' = "handler") =>
               /\ round'.hcoro # NoCoro
               /\ round'.hcoro =
                    event_handlers[HandlerName(EventMapGet(cur'.kind))]]_vars

\* The first on_message is running for an envelope while a second on_message
\* has taken its place in the registry; two listeners are registered for the
\* name, and the last event() call was refused.
C15_Witness ==
    /\ pc = "handler"
    /\ round.hcoro = Coro(<<"on_", "message">>, 1)
    /\ event_handlers[<<"on_", "message">>] = Coro(<<"on_", "message">>, 2)
    /\ Len(listeners[<<"on_", "message">>]) = 2
    /\ lastReg = "ValueError"

\* C16: when no scope is open or exiting, that is once every scope that was
\* entered has exited, whichever Typing objects the entries were made on, no
\* typing task is scheduled, asleep or sending.
C16_NoTaskOutlivesScopes ==
    (\A s \in ScopeIds : scopes[s].st \in {"none", "exited", "exit_raised"}) =>
        \A k \in ScopeIds : tasks[k].st \notin TaskRunning

\* C17: a _dispatch of an envelope of a known kind whose payload the parser
\* fails on ends in the step that began it, by raising the parser's failure
\* to its caller, with no primary handler and no listener invoked, whatever
\* is registered; user_id is then the payload's for a ready envelope and
\* untouched for any other; and _dispatch raises a parser's failure for no
\* other envelope.
C17_ParseFailure ==
    [][LET e == Head(inbox) IN
       /\ (dispatched' # dispatched /\ EventMapGet(e.kind) # None
             /\ ~e.parses) =>
            /\ last'.seq = e.seq
            /\ last'.result = "raised_parse"
            /\ last'.hcoro = NoCoro
            /\ last'.invoked = <<>>
            /\ pc' = "idle"
            /\ inflight' = {}
            /\ user_id' = IF EventMapGet(e.kind) = "ready"
                          THEN e.user_id ELSE user_id
            /\ UNCHANGED <<event_handlers, listeners>>
       /\ last'.result = "raised_parse" =>
            /\ dispatched' # dispatched
            /\ ~e.parses]_vars

\* A ready envelope whose payload did not parse was dispatched while a
\* primary handler and a listener were registered for it: neither ran and
\* user_id is the payload's.
C17_Witness ==
    /\ last.result = "raised_parse"
    /\ last.kind = "ready"
    /\ last.hreg # NoCoro
    /\ last.regs # <<>>
    /\ last.hcoro = NoCoro
    /\ last.invoked = <<>>
    /\ user_id = "u2"

\* C18: the listeners a _dispatch invoked are the ones that were in the list
\* of the envelope's name when the _dispatch began, in order: all of them
\* when it returned, the first of them when a listener's BaseException ended
\* it; a listener registered while the _dispatch was under way is not among
\* them.
C18_StableListenerSet ==
    RoundRan =>
        /\ Len(last.invoked) <= Len(last.regs0)
        /\ last.invoked = SubSeq(last.regs0, 1, Len(last.invoked))
        /\ last.result = "returned" => last.invoked = last.regs0

====
